---- MODULE Spec2Model ----
(***************************************************************************)
(* Permit package tracking: the package status workflow (PackagesService), *)
(* the checklist items, and the real-time hub (PermitWebSocketGateway).    *)
(* The persistent store is modelled as three tables with one auto-commit   *)
(* statement per Prisma call; every handler is split at its awaits, so     *)
(* that handlers of different requests interleave as they do on the event  *)
(* loop.  A store call may fail (timeout, constraint violation).           *)
(***************************************************************************)
EXTENDS Naturals, Integers, Sequences, FiniteSets, TLC

\* ------------------------------------------------------------------ bounds
\* Number of handler invocations (requests) a behaviour may start, for each
\* specification.
MaxCalls == 2
MaxLifecycleCalls == 2
MaxRoomCalls == 3
MaxJoinCalls == 4
MaxChecklistCalls == 2
MaxStatusCalls == 2
MaxToggleCalls == 3
MaxLeaveCalls == 5
MaxSessionCalls == 3
MaxEquivalenceCalls == 2
MaxClientCalls == 3
MaxTemplateCalls == 3
\* Number of items of the checklist the ChecklistEditor displays.
MaxItems == 40
\* Number of those items that are not required.
MaxOptional == 4
\* Number of handler invocations in flight at one time.
MaxInflight == 2

\* ------------------------------------------------------------- value sets
Nil == "nil"

Users == {"u1", "u2"}
Conns == {"c1", "c2"}
PkgIds == {"p1", "p2"}
ItemIds == {"i1", "i2", "i3", "i4"}
\* County ids and enum PermitType
Counties == {"county1", "county2"}
PermitType == {"RESIDENTIAL", "MOBILE_HOME", "MODULAR_HOME"}

\* enum PackageStatus
PackageStatus == {"DRAFT", "IN_REVIEW", "SUBMITTED", "APPROVED", "REJECTED", "CLOSED"}
\* handshake tokens: none, one that fails verification, one per user
Tokens == {"none", "invalid"} \cup Users

\* completedAt = null
NullTime == 0

\* table CountyChecklistTemplateItem as the seed leaves it: for county1 a
\* general item and one per permit type pack, for county2 a general item
\* (permitType null applies to all permit types)
TemplateIds == {"t1", "t2", "t3", "t4"}
TemplateRow(countyId, permitType, label, category, required, sort) ==
    [countyId |-> countyId, permitType |-> permitType, label |-> label,
     category |-> category, required |-> required, sort |-> sort]
CountyChecklistTemplateItem ==
    [t \in TemplateIds |->
        CASE t = "t1" -> TemplateRow("county1", Nil, "Completed permit application form",
                                     "Application", TRUE, 0)
          [] t = "t2" -> TemplateRow("county1", "MOBILE_HOME", "Tie-down/anchoring system details",
                                     "Anchorage", TRUE, 1)
          [] t = "t3" -> TemplateRow("county1", "RESIDENTIAL", "Impact fees paid",
                                     "Fees", FALSE, 2)
          [] t = "t4" -> TemplateRow("county2", Nil, "Completed permit application form",
                                     "Application", TRUE, 0)]

\* no row under a template id
NoTemplate == TemplateRow(Nil, Nil, Nil, Nil, FALSE, 0)

VARIABLES
    packages,        \* table PermitPackage: id -> row
    statusLogs,      \* table StatusLog: packageId -> rows in creation order
    checklistItems,  \* table PackageChecklistItem: id -> row
    templates,       \* table CountyChecklistTemplateItem: id -> row
    sockets,         \* connection -> [state, userId, handshake token] (AuthenticatedSocket)
    connectedUsers,  \* gateway map userId -> socketId
    rooms,           \* socket.io rooms: packageId -> set of connections
    inbox,           \* connection -> events delivered to it, in order
    inflight,        \* handler invocations that have not returned yet
    started,         \* number of handler invocations so far
    budget,          \* number of handler invocations the behaviour may start
    returned,        \* packageId -> how many create/updateStatus calls returned ok / threw
    notFound,        \* package or item id -> how many NotFoundException were thrown for it
    items,           \* ChecklistEditor: the checklist items the component displays
    progress,        \* ChecklistEditor: <<getProgressStats(items)>> once rendered, else <<>>
    provider         \* SocketProvider: connection -> [currentPackage, listeners]

vars == <<packages, statusLogs, checklistItems, templates, sockets, connectedUsers, rooms, inbox,
          inflight, started, budget, returned, notFound, items, progress, provider>>

store == <<packages, statusLogs, checklistItems, templates>>
hub == <<sockets, connectedUsers, rooms>>
\* the state of the web client: the ChecklistEditor and the SocketProvider
view == <<items, progress, provider>>

\* ------------------------------------------------------------------ rows
NoPackage == [exists |-> FALSE, status |-> Nil, createdById |-> Nil, updatedById |-> Nil,
              packageNumber |-> 0, countyId |-> Nil, permitType |-> Nil]

PackageRow(status, createdById, updatedById, packageNumber, countyId, permitType) ==
    [exists |-> TRUE, status |-> status, createdById |-> createdById, updatedById |-> updatedById,
     packageNumber |-> packageNumber, countyId |-> countyId, permitType |-> permitType]

StatusLogRow(status, note, userId) == [status |-> status, note |-> note, userId |-> userId]

NoItem == [exists |-> FALSE, packageId |-> Nil, label |-> Nil, category |-> Nil,
           required |-> FALSE, sort |-> 0, completed |-> FALSE, completedAt |-> NullTime]

\* a row as packageChecklistItem.create({label, category, required, sort,
\* packageId}) inserts it: completed at its default false, completedAt null
ItemRow(packageId, t) ==
    [exists |-> TRUE, packageId |-> packageId, label |-> t.label, category |-> t.category,
     required |-> t.required, sort |-> t.sort, completed |-> FALSE, completedAt |-> NullTime]

\* new Date(): the number of requests started so far (at least 1 inside a handler)
Now == started

\* ---------------------------------------------------------------- events
\* room is the room an emit addressed (Nil for an emit to one client); the other
\* fields are the payload
Event(name, room, packageId, itemId, status, note, completed, userId, action) ==
    [name |-> name, room |-> room, packageId |-> packageId, itemId |-> itemId,
     status |-> status, note |-> note, completed |-> completed, userId |-> userId,
     action |-> action]

\* client.emit('error', { message }): the message travels in the action field,
\* and packageId records the package the failed request named
ErrorEvent(message, p) == Event("error", Nil, p, Nil, Nil, Nil, FALSE, Nil, message)
JoinedPackageEvent(p) == Event("joined-package", Nil, p, Nil, Nil, Nil, FALSE, Nil, Nil)
LeftPackageEvent(p) == Event("left-package", Nil, p, Nil, Nil, Nil, FALSE, Nil, Nil)
PresenceEvent(p, u, action) == Event("presence", p, Nil, Nil, Nil, Nil, FALSE, u, action)
ChecklistUpdatedEvent(p, i, completed, u) ==
    Event("checklist-updated", p, Nil, i, Nil, Nil, completed, u, Nil)
StatusUpdatedEvent(p, status, note, u) ==
    Event("status-updated", p, p, Nil, status, note, FALSE, u, Nil)

Connected(c) == sockets[c].state = "connected"

\* socket.io delivery: an emit reaches the targeted sockets that are connected
Deliver(targets, e) ==
    [c \in Conns |-> IF c \in targets /\ Connected(c)
                     THEN Append(inbox[c], e) ELSE inbox[c]]

\* client.emit(...)
EmitToClient(c, e) == Deliver({c}, e)
\* mutation: this.server.emit(...), to every connected socket
EmitToRoom_Everyone(p, e) == Deliver(Conns, e)

\* this.server.to(`package-${p}`).emit(...)
EmitToRoom(p, e) == Deliver(rooms[p], e)
\* mutation: client.emit(ack) followed by this.server.to(room).emit(e), which
\* reaches the sender too
EmitAckAndToOthers_WholeRoom(c, ack, members, e) ==
    [b \in Conns |-> IF ~Connected(b) THEN inbox[b]
                     ELSE IF b = c THEN inbox[b] \o <<ack, e>>
                     ELSE IF b \in members THEN Append(inbox[b], e)
                     ELSE inbox[b]]

\* client.emit(ack) followed by client.to(`package-${p}`).emit(e): the room minus the sender
EmitAckAndToOthers(c, ack, members, e) ==
    [b \in Conns |-> IF ~Connected(b) THEN inbox[b]
                     ELSE IF b = c THEN Append(inbox[b], ack)
                     ELSE IF b \in members THEN Append(inbox[b], e)
                     ELSE inbox[b]]

\* ----------------------------------------------------------------- calls
Call(kind, via, conn, userId, packageId, itemId, status, note, completed, pc) ==
    [id |-> started + 1, kind |-> kind, via |-> via, conn |-> conn, userId |-> userId,
     packageId |-> packageId, itemId |-> itemId, status |-> status, note |-> note,
     completed |-> completed, pc |-> pc,
     pkgOp |-> "none", logOp |-> "none", itemOp |-> "none", number |-> 0,
     countyId |-> Nil, permitType |-> Nil,
     templateItems |-> <<>>, itemOps |-> <<>>, result |-> <<>>, hasCompleted |-> TRUE,
     event |-> Nil]

CanStart == started < budget /\ Cardinality(inflight) < MaxInflight
Start(c) == /\ inflight' = inflight \cup {c}
            /\ started' = started + 1
            /\ UNCHANGED budget
Goto(c, d) == /\ inflight' = (inflight \ {c}) \cup {d}
              /\ UNCHANGED <<started, budget>>
Finish(c) == /\ inflight' = inflight \ {c}
             /\ UNCHANGED <<started, budget>>
At(c, pc) == c \in inflight /\ c.pc = pc

ReturnedOk(p) == /\ returned' = [returned EXCEPT ![p].ok = @ + 1]
                 /\ UNCHANGED <<notFound, view>>
ReturnedError(p) == /\ returned' = [returned EXCEPT ![p].failed = @ + 1]
                    /\ UNCHANGED <<notFound, view>>
\* throw new NotFoundException(...)
ThrowNotFound(p) == /\ notFound' = [notFound EXCEPT ![p] = @ + 1]
                    /\ returned' = [returned EXCEPT ![p].failed = @ + 1]
                    /\ UNCHANGED view

\* ------------------------------------------------------------------ Init
\* The process starts with no connection and no request; the store holds
\* package p1 of user u1 and, in one of the two initial states, package p2 of
\* user u2, each as a successful create leaves it, with one checklist item.
InitStore(withP2) ==
    /\ packages = [p \in PkgIds |->
                      CASE p = "p1" -> PackageRow("DRAFT", "u1", Nil, 1, "county1", "MOBILE_HOME")
                        [] p = "p2" /\ withP2 ->
                               PackageRow("DRAFT", "u2", Nil, 2, "county2", "RESIDENTIAL")
                        [] OTHER -> NoPackage]
    /\ statusLogs = [p \in PkgIds |->
                      CASE p = "p1" -> <<StatusLogRow("DRAFT", "Package created", "u1")>>
                        [] p = "p2" /\ withP2 -> <<StatusLogRow("DRAFT", "Package created", "u2")>>
                        [] OTHER -> <<>>]
    /\ checklistItems = [i \in ItemIds |->
                      CASE i = "i1" -> ItemRow("p1", CountyChecklistTemplateItem["t1"])
                        [] i = "i2" /\ withP2 -> ItemRow("p2", CountyChecklistTemplateItem["t4"])
                        [] OTHER -> NoItem]
    /\ templates = CountyChecklistTemplateItem

\* the store after user u1 has moved u2's package p2 to IN_REVIEW over REST:
\* u1 is the creator of p1 and the last updater of p2
InitStoreShared ==
    /\ packages = [p \in PkgIds |->
                      CASE p = "p1" -> PackageRow("DRAFT", "u1", Nil, 1, "county1", "MOBILE_HOME")
                        [] p = "p2" -> PackageRow("IN_REVIEW", "u2", "u1", 2, "county2",
                                                  "RESIDENTIAL")]
    /\ statusLogs = [p \in PkgIds |->
                      CASE p = "p1" -> <<StatusLogRow("DRAFT", "Package created", "u1")>>
                        [] p = "p2" -> <<StatusLogRow("DRAFT", "Package created", "u2"),
                                         StatusLogRow("IN_REVIEW", "n1", "u1")>>]
    /\ checklistItems = [i \in ItemIds |->
                      CASE i = "i1" -> ItemRow("p1", CountyChecklistTemplateItem["t1"])
                        [] i = "i2" -> ItemRow("p2", CountyChecklistTemplateItem["t4"])
                        [] OTHER -> NoItem]
    /\ templates = CountyChecklistTemplateItem

InitGateway(b) ==
    /\ budget = b
    /\ sockets = [c \in Conns |-> [state |-> "connecting", userId |-> Nil, token |-> Nil]]
    /\ connectedUsers = [u \in Users |-> Nil]
    /\ rooms = [p \in PkgIds |-> {}]
    /\ inbox = [c \in Conns |-> <<>>]
    /\ inflight = {}
    /\ started = 0
    /\ returned = [p \in PkgIds |-> [ok |-> 0, failed |-> 0]]
    /\ notFound = [x \in PkgIds \cup ItemIds |-> 0]

\* SocketProvider before joinPackage: no current package, no package listener
InitProvider ==
    provider = [c \in Conns |-> [currentPackage |-> Nil, listeners |-> {}]]

\* no ChecklistEditor is mounted
InitHub(b) ==
    /\ InitGateway(b)
    /\ items = <<>>
    /\ progress = <<>>
    /\ InitProvider

\* ------------------------------------------------- connection life cycle
\* mutation: a failed verification is logged but the socket is left open
HandleConnection_NoDisconnect(c, token) ==
    /\ sockets[c].state = "connecting"
    /\ IF token \in Users
       THEN /\ sockets' = [sockets EXCEPT ![c] = [state |-> "connected", userId |-> token,
                                                   token |-> token]]
            /\ connectedUsers' = [connectedUsers EXCEPT ![token] = c]
       ELSE /\ sockets' = [sockets EXCEPT ![c] = [state |-> "connected", userId |-> Nil,
                                                   token |-> token]]
            /\ UNCHANGED connectedUsers
    /\ UNCHANGED <<store, rooms, inbox, inflight, started, budget, returned, notFound, view>>

\* handleConnection: no await inside, so it runs to completion at once
HandleConnection(c, token) ==
    /\ sockets[c].state = "connecting"
    /\ IF token \in Users
       THEN /\ sockets' = [sockets EXCEPT ![c] = [state |-> "connected", userId |-> token,
                                                   token |-> token]]
            /\ connectedUsers' = [connectedUsers EXCEPT ![token] = c]
       ELSE /\ sockets' = [sockets EXCEPT ![c] = [state |-> "disconnected", userId |-> Nil,
                                                   token |-> token]]
            /\ UNCHANGED connectedUsers
    /\ UNCHANGED <<store, rooms, inbox, inflight, started, budget, returned, notFound, view>>

\* mutation: the closed socket stays in the rooms it had joined
HandleDisconnect_KeepRooms(c) ==
    /\ Connected(c)
    /\ sockets' = [sockets EXCEPT ![c].state = "disconnected"]
    /\ connectedUsers' = IF sockets[c].userId # Nil
                         THEN [connectedUsers EXCEPT ![sockets[c].userId] = Nil]
                         ELSE connectedUsers
    /\ UNCHANGED <<store, rooms, inbox, inflight, started, budget, returned, notFound, view>>

\* socket.io removes a closed socket from its rooms, then handleDisconnect runs
HandleDisconnect(c) ==
    /\ Connected(c)
    /\ sockets' = [sockets EXCEPT ![c].state = "disconnected"]
    /\ rooms' = [p \in PkgIds |-> rooms[p] \ {c}]
    /\ connectedUsers' = IF sockets[c].userId # Nil
                         THEN [connectedUsers EXCEPT ![sockets[c].userId] = Nil]
                         ELSE connectedUsers
    /\ UNCHANGED <<store, inbox, inflight, started, budget, returned, notFound, view>>

\* an event another part of the application sends to one user
NotificationEvent(u) == Event("notification", Nil, Nil, Nil, Nil, Nil, FALSE, u, Nil)

\* emitToUser(userId, event, data): to the socket the registry holds for the user
EmitToUser(u) ==
    /\ started < budget
    /\ inbox' = IF connectedUsers[u] # Nil
                THEN Deliver({connectedUsers[u]}, NotificationEvent(u))
                ELSE inbox
    /\ started' = started + 1
    /\ UNCHANGED <<store, hub, inflight, budget, returned, notFound, view>>

\* ------------------------------------------------------------ join/leave
\* mutation: findFirst({id}) without the OR on creator and updater
HasAccess_AnyUser(p, userId) == packages[p].exists

\* prisma findFirst({id, OR:[{createdById}, {updatedById}]}); a filter whose
\* value is undefined is dropped by Prisma, so it matches every row
HasAccess(p, userId) ==
    /\ packages[p].exists
    /\ \/ userId = Nil
       \/ packages[p].createdById = userId
       \/ packages[p].updatedById = userId

HandleJoinPackage(c, p) ==
    /\ CanStart /\ Connected(c)
    /\ Start(Call("join", "socket", c, sockets[c].userId, p, Nil, Nil, Nil, FALSE, "findFirst"))
    /\ UNCHANGED <<store, hub, inbox, returned, notFound, view>>

\* the store answers findFirst: without a row the handler emits error and
\* returns; when the read itself fails the catch block emits error
JoinFindFirst(k) ==
    /\ At(k, "findFirst")
    /\ \E ok \in BOOLEAN :
         IF ~ok
         THEN /\ Finish(k)
              /\ inbox' = EmitToClient(k.conn, ErrorEvent("Failed to join package", k.packageId))
         ELSE IF HasAccess(k.packageId, k.userId)
         THEN /\ Goto(k, [k EXCEPT !.pc = "join"])
              /\ UNCHANGED inbox
         ELSE /\ Finish(k)
              /\ inbox' = EmitToClient(k.conn, ErrorEvent("Access denied to this package", k.packageId))
    /\ UNCHANGED <<store, hub, returned, notFound, view>>

\* client.join; client.emit('joined-package'); client.to(room).emit('presence');
\* on a socket that has closed meanwhile socket.io makes join a no-op
JoinRoom(k) ==
    /\ At(k, "join")
    /\ rooms' = IF Connected(k.conn)
                THEN [rooms EXCEPT ![k.packageId] = @ \cup {k.conn}]
                ELSE rooms
    /\ inbox' = EmitAckAndToOthers(k.conn, JoinedPackageEvent(k.packageId), rooms[k.packageId],
                                   PresenceEvent(k.packageId, k.userId, "joined"))
    /\ Finish(k)
    /\ UNCHANGED <<store, sockets, connectedUsers, returned, notFound, view>>

\* mutation: the connection leaves every room it is in (socket.leaveAll)
HandleLeavePackage_AllRooms(c, p) ==
    /\ CanStart /\ Connected(c)
    /\ rooms' = [q \in PkgIds |-> rooms[q] \ {c}]
    /\ inbox' = EmitAckAndToOthers(c, LeftPackageEvent(p), rooms[p],
                                   PresenceEvent(p, sockets[c].userId, "left"))
    /\ started' = started + 1
    /\ UNCHANGED <<store, sockets, connectedUsers, inflight, budget, returned, notFound, view>>

\* handleLeavePackage is synchronous
HandleLeavePackage(c, p) ==
    /\ CanStart /\ Connected(c)
    /\ rooms' = [rooms EXCEPT ![p] = @ \ {c}]
    /\ inbox' = EmitAckAndToOthers(c, LeftPackageEvent(p), rooms[p],
                                   PresenceEvent(p, sockets[c].userId, "left"))
    /\ started' = started + 1
    /\ UNCHANGED <<store, sockets, connectedUsers, inflight, budget, returned, notFound, view>>

\* ------------------------------------------- update-status (socket event)
\* Prisma validates the data of a statement before sending it: a value that
\* is not a member of the column's enum rejects the statement, and so does a
\* missing value of a required column of a create; a column of an update whose
\* value is undefined is left as it is.
ValidStatus(status) == status \in PackageStatus

UpdateAccepts(status) == status = Nil \/ ValidStatus(status)

CreateAccepts(status) == ValidStatus(status)

HandleUpdateStatus(c, p, status, note) ==
    /\ CanStart /\ Connected(c)
    /\ Start(Call("updateStatus", "socket", c, sockets[c].userId, p, Nil, status, note, FALSE,
                  "updatePackage"))
    /\ UNCHANGED <<store, hub, inbox, returned, notFound, view>>

\* await prisma.permitPackage.update({status, updatedById}); throws without the row
HandleUpdateStatusUpdate(k) ==
    /\ At(k, "updatePackage") /\ k.via = "socket"
    /\ \E ok \in BOOLEAN :
         IF ok /\ packages[k.packageId].exists /\ UpdateAccepts(k.status)
         THEN /\ packages' = [packages EXCEPT ![k.packageId].status =
                                                  IF k.status = Nil THEN @ ELSE k.status,
                                              ![k.packageId].updatedById = k.userId]
              /\ Goto(k, [k EXCEPT !.pc = "createLog", !.pkgOp = "ok"])
         ELSE /\ UNCHANGED packages
              /\ Goto(k, [k EXCEPT !.pc = "catch", !.pkgOp = "failed"])
    /\ UNCHANGED <<statusLogs, checklistItems, templates, hub, inbox, returned, notFound, view>>

\* mutation: the handler goes on to the broadcast without writing the log row
HandleUpdateStatusCreateLog_NoRow(k) ==
    /\ At(k, "createLog") /\ k.via = "socket"
    /\ Goto(k, [k EXCEPT !.pc = "broadcast", !.logOp = "ok"])
    /\ UNCHANGED <<store, hub, inbox, returned, notFound, view>>

\* await prisma.statusLog.create(...); the foreign key needs the package row
HandleUpdateStatusCreateLog(k) ==
    /\ At(k, "createLog") /\ k.via = "socket"
    /\ \E ok \in BOOLEAN :
         IF ok /\ packages[k.packageId].exists /\ CreateAccepts(k.status)
         THEN /\ statusLogs' = [statusLogs EXCEPT ![k.packageId] =
                                   Append(@, StatusLogRow(k.status, k.note, k.userId))]
              /\ Goto(k, [k EXCEPT !.pc = "broadcast", !.logOp = "ok"])
         ELSE /\ UNCHANGED statusLogs
              /\ Goto(k, [k EXCEPT !.pc = "catch", !.logOp = "failed"])
    /\ UNCHANGED <<packages, checklistItems, templates, hub, inbox, returned, notFound, view>>

\* this.server.to(`package-${data.packageId}`).emit('status-updated', ...)
HandleUpdateStatusBroadcast(k) ==
    /\ At(k, "broadcast") /\ k.kind = "updateStatus"
    /\ inbox' = EmitToRoom(k.packageId,
                           StatusUpdatedEvent(k.packageId, k.status, k.note, k.userId))
    /\ ReturnedOk(k.packageId)
    /\ Finish(k)
    /\ UNCHANGED <<store, hub>>

\* catch: client.emit('error', 'Failed to update status')
HandleUpdateStatusCatch(k) ==
    /\ At(k, "catch") /\ k.kind = "updateStatus"
    /\ inbox' = EmitToClient(k.conn, ErrorEvent("Failed to update status", k.packageId))
    /\ ReturnedError(k.packageId)
    /\ Finish(k)
    /\ UNCHANGED <<store, hub>>

\* ------------------------------------- PATCH packages/:id/status (REST)
\* PackagesController.updateStatus -> PackagesService.updateStatus
UpdateStatus(u, p, status, note) ==
    /\ CanStart
    /\ Start(Call("updateStatus", "rest", Nil, u, p, Nil, status, note, FALSE, "findUnique"))
    /\ UNCHANGED <<store, hub, inbox, returned, notFound, view>>

\* mutation: the writes are issued without looking the package up
UpdateStatusFindUnique_NoLookup(k) ==
    /\ At(k, "findUnique") /\ k.kind = "updateStatus"
    /\ Goto(k, [k EXCEPT !.pc = "writes", !.pkgOp = "pending", !.logOp = "pending"])
    /\ UNCHANGED <<store, hub, inbox, returned, notFound, view>>

\* findUnique; NotFoundException without the row; then both writes are issued
UpdateStatusFindUnique(k) ==
    /\ At(k, "findUnique") /\ k.kind = "updateStatus"
    /\ IF packages[k.packageId].exists
       THEN /\ Goto(k, [k EXCEPT !.pc = "writes", !.pkgOp = "pending", !.logOp = "pending"])
            /\ UNCHANGED <<returned, notFound, view>>
       ELSE /\ Finish(k)
            /\ ThrowNotFound(k.packageId)
    /\ UNCHANGED <<store, hub, inbox>>

\* the required checklist items of package p that are not completed
RequiredOpen(p) ==
    {i \in ItemIds : /\ checklistItems[i].exists /\ checklistItems[i].packageId = p
                      /\ checklistItems[i].required /\ ~checklistItems[i].completed}

\* mutation: APPROVED is refused while a required checklist item is open
UpdateStatusUpdate_RequiredGate(k) ==
    /\ At(k, "writes") /\ k.pkgOp = "pending"
    /\ \E ok \in BOOLEAN :
         IF /\ ok /\ packages[k.packageId].exists /\ UpdateAccepts(k.status)
            /\ (k.status = "APPROVED" => RequiredOpen(k.packageId) = {})
         THEN /\ packages' = [packages EXCEPT ![k.packageId].status =
                                                  IF k.status = Nil THEN @ ELSE k.status,
                                              ![k.packageId].updatedById = k.userId]
              /\ Goto(k, [k EXCEPT !.pkgOp = "ok"])
         ELSE /\ UNCHANGED packages
              /\ Goto(k, [k EXCEPT !.pkgOp = "failed"])
    /\ UNCHANGED <<statusLogs, checklistItems, templates, hub, inbox, returned, notFound, view>>

\* Promise.all member 1: prisma.permitPackage.update, its own statement
UpdateStatusUpdate(k) ==
    /\ At(k, "writes") /\ k.pkgOp = "pending"
    /\ \E ok \in BOOLEAN :
         IF ok /\ packages[k.packageId].exists /\ UpdateAccepts(k.status)
         THEN /\ packages' = [packages EXCEPT ![k.packageId].status =
                                                  IF k.status = Nil THEN @ ELSE k.status,
                                              ![k.packageId].updatedById = k.userId]
              /\ Goto(k, [k EXCEPT !.pkgOp = "ok"])
         ELSE /\ UNCHANGED packages
              /\ Goto(k, [k EXCEPT !.pkgOp = "failed"])
    /\ UNCHANGED <<statusLogs, checklistItems, templates, hub, inbox, returned, notFound, view>>

\* Promise.all member 2: prisma.statusLog.create, its own statement
UpdateStatusCreateLog(k) ==
    /\ At(k, "writes") /\ k.logOp = "pending"
    /\ \E ok \in BOOLEAN :
         IF ok /\ packages[k.packageId].exists /\ CreateAccepts(k.status)
         THEN /\ statusLogs' = [statusLogs EXCEPT ![k.packageId] =
                                   Append(@, StatusLogRow(k.status, k.note, k.userId))]
              /\ Goto(k, [k EXCEPT !.logOp = "ok"])
         ELSE /\ UNCHANGED statusLogs
              /\ Goto(k, [k EXCEPT !.logOp = "failed"])
    /\ UNCHANGED <<packages, checklistItems, templates, hub, inbox, returned, notFound, view>>

\* both statements have settled: return {package, statusLog}, or the rejection
UpdateStatusReturn(k) ==
    /\ At(k, "writes") /\ k.pkgOp # "pending" /\ k.logOp # "pending"
    /\ IF k.pkgOp = "ok" /\ k.logOp = "ok"
       THEN ReturnedOk(k.packageId)
       ELSE ReturnedError(k.packageId)
    /\ Finish(k)
    /\ UNCHANGED <<store, hub, inbox>>

\* ------------------------------------------------ POST packages (REST)
\* PackagesService.create starts with generatePackageNumber
Create(u, countyId, permitType) ==
    /\ CanStart
    /\ Start([Call("create", "rest", Nil, u, Nil, Nil, Nil, Nil, FALSE, "generatePackageNumber")
                 EXCEPT !.countyId = countyId, !.permitType = permitType])
    /\ UNCHANGED <<store, hub, inbox, returned, notFound, view>>

\* count of the packages of the year, plus one
GeneratePackageNumber == Cardinality({p \in PkgIds : packages[p].exists}) + 1

CreateGenerateNumber(k) ==
    /\ At(k, "generatePackageNumber")
    /\ Goto(k, [k EXCEPT !.pc = "createPackage", !.number = GeneratePackageNumber])
    /\ UNCHANGED <<store, hub, inbox, returned, notFound, view>>

\* prisma.permitPackage.create: a fresh id, status at its default DRAFT
CreatePackage(k) ==
    /\ At(k, "createPackage")
    /\ \E ok \in BOOLEAN :
         IF ok
         THEN \E p \in PkgIds :
                /\ ~packages[p].exists
                /\ packages' = [packages EXCEPT ![p] = PackageRow("DRAFT", k.userId, Nil, k.number,
                                                                k.countyId, k.permitType)]
                /\ Goto(k, [k EXCEPT !.pc = "createLog", !.packageId = p, !.pkgOp = "ok"])
                /\ UNCHANGED <<returned, notFound, view>>
         ELSE /\ UNCHANGED <<packages, returned, notFound, view>>
              /\ Finish(k)
    /\ UNCHANGED <<statusLogs, checklistItems, templates, hub, inbox>>

\* prisma.statusLog.create({status: DRAFT, note: 'Package created'}), then return
CreateInitialLog(k) ==
    /\ At(k, "createLog") /\ k.kind = "create"
    /\ \E ok \in BOOLEAN :
         IF ok
         THEN /\ statusLogs' = [statusLogs EXCEPT ![k.packageId] =
                                   Append(@, StatusLogRow("DRAFT", "Package created", k.userId))]
              /\ UNCHANGED <<returned, notFound, view>>
         ELSE /\ UNCHANGED statusLogs
              /\ ReturnedError(k.packageId)
    /\ Finish(k)
    /\ UNCHANGED <<packages, checklistItems, templates, hub, inbox>>

\* ------------------------------------ toggle-checklist-item (socket event)
HandleToggleChecklistItem(c, p, i, completed) ==
    /\ CanStart /\ Connected(c)
    /\ Start(Call("toggle", "socket", c, sockets[c].userId, p, i, Nil, Nil, completed,
                  "updateItem"))
    /\ UNCHANGED <<store, hub, inbox, returned, notFound, view>>

\* mutation: the update is not awaited, the handler goes on to the broadcast
\* whether or not the statement commits
HandleToggleUpdate_NotAwaited(k) ==
    /\ At(k, "updateItem") /\ k.via = "socket"
    /\ \E ok \in BOOLEAN :
         IF ok /\ checklistItems[k.itemId].exists
         THEN /\ checklistItems' = [checklistItems EXCEPT
                                      ![k.itemId].completed = k.completed,
                                      ![k.itemId].completedAt =
                                          IF k.completed THEN Now ELSE NullTime]
              /\ Goto(k, [k EXCEPT !.pc = "broadcast", !.itemOp = "ok"])
         ELSE /\ UNCHANGED checklistItems
              /\ Goto(k, [k EXCEPT !.pc = "broadcast", !.itemOp = "failed"])
    /\ UNCHANGED <<packages, statusLogs, templates, hub, inbox, returned, notFound, view>>

\* await prisma.packageChecklistItem.update({completed, completedAt})
HandleToggleUpdate(k) ==
    /\ At(k, "updateItem") /\ k.via = "socket"
    /\ \E ok \in BOOLEAN :
         IF ok /\ checklistItems[k.itemId].exists
         THEN /\ checklistItems' = [checklistItems EXCEPT
                                      ![k.itemId].completed = k.completed,
                                      ![k.itemId].completedAt =
                                          IF k.completed THEN Now ELSE NullTime]
              /\ Goto(k, [k EXCEPT !.pc = "broadcast", !.itemOp = "ok"])
         ELSE /\ UNCHANGED checklistItems
              /\ Goto(k, [k EXCEPT !.pc = "catch", !.itemOp = "failed"])
    /\ UNCHANGED <<packages, statusLogs, templates, hub, inbox, returned, notFound, view>>

\* the room of the broadcast: `package-${data.packageId}`, from the payload
ToggleRoom(k) == k.packageId

\* this.server.to(room).emit('checklist-updated', ...)
HandleToggleBroadcast(k) ==
    /\ At(k, "broadcast") /\ k.kind = "toggle"
    /\ inbox' = EmitToRoom(ToggleRoom(k),
                           ChecklistUpdatedEvent(ToggleRoom(k), k.itemId, k.completed, k.userId))
    /\ Finish(k)
    /\ UNCHANGED <<store, hub, returned, notFound, view>>

\* catch: client.emit('error', 'Failed to update checklist item')
HandleToggleCatch(k) ==
    /\ At(k, "catch") /\ k.kind = "toggle"
    /\ inbox' = EmitToClient(k.conn, ErrorEvent("Failed to update checklist item", k.packageId))
    /\ Finish(k)
    /\ UNCHANGED <<store, hub, returned, notFound, view>>

\* ------------------------------ PATCH packages/checklist/:itemId (REST)
\* the request bodies { completed: boolean; notes?: string }: the body is not
\* validated, so completed may be absent
ChecklistBodies == {[completed |-> TRUE], [completed |-> FALSE], [notes |-> "n1"]}

\* PackagesController.updateChecklistItem -> PackagesService.updateChecklistItem
UpdateChecklistItem(i, body) ==
    /\ CanStart
    /\ Start([Call("updateChecklistItem", "rest", Nil, Nil, Nil, i, Nil, Nil,
                    IF "completed" \in DOMAIN body THEN body.completed ELSE FALSE, "findUnique")
                 EXCEPT !.hasCompleted = "completed" \in DOMAIN body])
    /\ UNCHANGED <<store, hub, inbox, returned, notFound, view>>

\* findUnique; NotFoundException('Checklist item not found') without the row
UpdateChecklistItemFindUnique(k) ==
    /\ At(k, "findUnique") /\ k.kind = "updateChecklistItem"
    /\ IF checklistItems[k.itemId].exists
       THEN /\ Goto(k, [k EXCEPT !.pc = "updateItem"])
            /\ UNCHANGED notFound
       ELSE /\ Finish(k)
            /\ notFound' = [notFound EXCEPT ![k.itemId] = @ + 1]
    /\ UNCHANGED <<store, hub, inbox, returned, view>>

\* prisma.packageChecklistItem.update({completed, completedAt: completed ? new
\* Date() : null, notes}): Prisma leaves a column whose value is undefined as
\* it is, and completedAt is never undefined
UpdateChecklistItemUpdate(k) ==
    /\ At(k, "updateItem") /\ k.kind = "updateChecklistItem"
    /\ \E ok \in BOOLEAN :
         IF ok /\ checklistItems[k.itemId].exists
         THEN /\ checklistItems' = [checklistItems EXCEPT
                                      ![k.itemId].completed =
                                          IF k.hasCompleted THEN k.completed ELSE @,
                                      ![k.itemId].completedAt =
                                          IF k.hasCompleted /\ k.completed THEN Now ELSE NullTime]
              /\ Goto(k, [k EXCEPT !.pc = "return", !.itemOp = "ok"])
         ELSE /\ UNCHANGED checklistItems
              /\ Goto(k, [k EXCEPT !.pc = "return", !.itemOp = "failed"])
    /\ UNCHANGED <<packages, statusLogs, templates, hub, inbox, returned, notFound, view>>

\* return updatedItem, or the rejection of the update
UpdateChecklistItemReturn(k) ==
    /\ At(k, "return") /\ k.kind = "updateChecklistItem"
    /\ Finish(k)
    /\ UNCHANGED <<store, hub, inbox, returned, notFound, view>>

\* --------------------------------- POST packages/:id/checklist (REST)
\* PackagesController.createChecklistItems -> PackagesService.createChecklistItems
CreateChecklistItems(p, rows) ==
    /\ CanStart
    /\ Start([Call("createChecklistItems", "rest", Nil, Nil, p, Nil, Nil, Nil, FALSE, "findUnique")
                 EXCEPT !.templateItems = rows])
    /\ UNCHANGED <<store, hub, inbox, returned, notFound, view>>

\* findUnique; NotFoundException without the row; otherwise templateItems.map
\* issues one packageChecklistItem.create per row, all under one Promise.all
CreateChecklistItemsFindUnique(k) ==
    /\ At(k, "findUnique") /\ k.kind = "createChecklistItems"
    /\ IF packages[k.packageId].exists
       THEN /\ Goto(k, [k EXCEPT !.pc = "creates",
                                  !.itemOps = [n \in DOMAIN k.templateItems |-> "pending"],
                                  !.result = [n \in DOMAIN k.templateItems |-> Nil]])
            /\ UNCHANGED <<returned, notFound, view>>
       ELSE /\ Finish(k)
            /\ ThrowNotFound(k.packageId)
    /\ UNCHANGED <<store, hub, inbox>>

\* @default(uuid()): an id no row of the table has
FreshItemId == CHOOSE i \in ItemIds : ~checklistItems[i].exists

\* mutation: the row is inserted with required at its schema default (true)
\* instead of the template row's value
CreateChecklistItem_DefaultRequired(k) ==
    /\ At(k, "creates") /\ k.kind = "createChecklistItems"
    /\ \E n \in DOMAIN k.itemOps :
         /\ k.itemOps[n] = "pending"
         /\ \E ok \in BOOLEAN :
              IF ok /\ packages[k.packageId].exists /\ \E i \in ItemIds : ~checklistItems[i].exists
              THEN /\ checklistItems' =
                         [checklistItems EXCEPT ![FreshItemId] =
                             [ItemRow(k.packageId, k.templateItems[n]) EXCEPT !.required = TRUE]]
                   /\ Goto(k, [k EXCEPT !.itemOps[n] = "ok", !.result[n] = FreshItemId])
              ELSE /\ UNCHANGED checklistItems
                   /\ Goto(k, [k EXCEPT !.itemOps[n] = "failed"])
    /\ UNCHANGED <<packages, statusLogs, templates, hub, inbox, returned, notFound, view>>

\* one member of the Promise.all: prisma.packageChecklistItem.create for the
\* n-th row, its own statement; the foreign key needs the package row
CreateChecklistItem(k) ==
    /\ At(k, "creates") /\ k.kind = "createChecklistItems"
    /\ \E n \in DOMAIN k.itemOps :
         /\ k.itemOps[n] = "pending"
         /\ \E ok \in BOOLEAN :
              IF ok /\ packages[k.packageId].exists /\ \E i \in ItemIds : ~checklistItems[i].exists
              THEN /\ checklistItems' =
                         [checklistItems EXCEPT ![FreshItemId] =
                             ItemRow(k.packageId, k.templateItems[n])]
                   /\ Goto(k, [k EXCEPT !.itemOps[n] = "ok", !.result[n] = FreshItemId])
              ELSE /\ UNCHANGED checklistItems
                   /\ Goto(k, [k EXCEPT !.itemOps[n] = "failed"])
    /\ UNCHANGED <<packages, statusLogs, templates, hub, inbox, returned, notFound, view>>

\* every statement has settled: return the created rows, or the rejection
CreateChecklistItemsReturn(k) ==
    /\ At(k, "creates") /\ k.kind = "createChecklistItems"
    /\ \A n \in DOMAIN k.itemOps : k.itemOps[n] # "pending"
    /\ Finish(k)
    /\ UNCHANGED <<store, hub, inbox, returned, notFound, view>>

\* ------------------- PUT/DELETE counties/:countyId/templates/:itemId (REST)
\* CountiesService.updateCountyTemplate(countyId, itemId, updateTemplateDto)
UpdateCountyTemplate(countyId, t, dto) ==
    /\ CanStart
    /\ Start([Call("updateCountyTemplate", "rest", Nil, Nil, Nil, t, Nil, Nil, FALSE, "findFirst")
                 EXCEPT !.countyId = countyId, !.templateItems = <<dto>>])
    /\ UNCHANGED <<store, hub, inbox, returned, notFound, view>>

\* CountiesService.deleteCountyTemplate(countyId, itemId)
DeleteCountyTemplate(countyId, t) ==
    /\ CanStart
    /\ Start([Call("deleteCountyTemplate", "rest", Nil, Nil, Nil, t, Nil, Nil, FALSE, "findFirst")
                 EXCEPT !.countyId = countyId])
    /\ UNCHANGED <<store, hub, inbox, returned, notFound, view>>

\* countyChecklistTemplateItem.findFirst({id, countyId}); without the row
\* NotFoundException('Template item not found') goes to the caller
CountyTemplateFindFirst(k) ==
    /\ At(k, "findFirst") /\ k.kind \in {"updateCountyTemplate", "deleteCountyTemplate"}
    /\ IF templates[k.itemId].countyId = k.countyId
       THEN Goto(k, [k EXCEPT !.pc = "write"])
       ELSE Finish(k)
    /\ UNCHANGED <<store, hub, inbox, returned, notFound, view>>

\* countyChecklistTemplateItem.update({where: {id}, data: updateTemplateDto});
\* rejected when the row has been deleted meanwhile
UpdateCountyTemplateUpdate(k) ==
    /\ At(k, "write") /\ k.kind = "updateCountyTemplate"
    /\ \E ok \in BOOLEAN :
         IF ok /\ templates[k.itemId] # NoTemplate
         THEN templates' = [templates EXCEPT
                               ![k.itemId].permitType = k.templateItems[1].permitType,
                               ![k.itemId].label = k.templateItems[1].label,
                               ![k.itemId].category = k.templateItems[1].category,
                               ![k.itemId].required = k.templateItems[1].required,
                               ![k.itemId].sort = k.templateItems[1].sort]
         ELSE UNCHANGED templates
    /\ Finish(k)
    /\ UNCHANGED <<packages, statusLogs, checklistItems, hub, inbox, returned, notFound, view>>

\* mutation: deleting a template row also deletes the package items that
\* carry its label (a cascade from template to instances)
DeleteCountyTemplateDelete_Cascade(k) ==
    /\ At(k, "write") /\ k.kind = "deleteCountyTemplate"
    /\ \E ok \in BOOLEAN :
         IF ok /\ templates[k.itemId] # NoTemplate
         THEN /\ templates' = [templates EXCEPT ![k.itemId] = NoTemplate]
              /\ checklistItems' =
                    [i \in ItemIds |->
                        IF checklistItems[i].exists
                           /\ checklistItems[i].label = templates[k.itemId].label
                        THEN NoItem ELSE checklistItems[i]]
         ELSE UNCHANGED <<templates, checklistItems>>
    /\ Finish(k)
    /\ UNCHANGED <<packages, statusLogs, hub, inbox, returned, notFound, view>>

\* countyChecklistTemplateItem.delete({where: {id}}); rejected when the row
\* has been deleted meanwhile
DeleteCountyTemplateDelete(k) ==
    /\ At(k, "write") /\ k.kind = "deleteCountyTemplate"
    /\ \E ok \in BOOLEAN :
         IF ok /\ templates[k.itemId] # NoTemplate
         THEN templates' = [templates EXCEPT ![k.itemId] = NoTemplate]
         ELSE UNCHANGED templates
    /\ Finish(k)
    /\ UNCHANGED <<packages, statusLogs, checklistItems, hub, inbox, returned, notFound, view>>

\* ------------------------------------------------- packets from clients
\* @SubscribeMessage(...): the event names the gateway has a handler for
SubscribeMessage == {"join-package", "leave-package", "toggle-checklist-item", "update-status"}

\* the event names the gateway emits
EmittedEvents ==
    {"joined-package", "left-package", "presence", "checklist-updated", "status-updated",
     "error"}

\* socket.emit(event, data) on the client: a packet on its way to the hub
Packet(n, event, c, p, i, status, note, completed) ==
    [Call("packet", "socket", c, Nil, p, i, status, note, completed, "wire")
        EXCEPT !.id = started + n, !.event = event]

CanEmit(n) == started + n <= budget /\ Cardinality(inflight) + n <= MaxInflight

Emit(packets) ==
    /\ inflight' = inflight \cup packets
    /\ started' = started + Cardinality(packets)
    /\ UNCHANGED budget

\* a client written against the README's event list sends one request
ClientEmit(c, event, p, i, status, note, completed) ==
    /\ Connected(c) /\ CanEmit(1)
    /\ Emit({Packet(1, event, c, p, i, status, note, completed)})
    /\ UNCHANGED <<store, hub, inbox, returned, notFound, view>>

\* socket.io hands the packets of a connection to the gateway in the order sent
Arrives(k) ==
    /\ At(k, "wire")
    /\ \A j \in inflight : (j.pc = "wire" /\ j.conn = k.conn) => k.id <= j.id

\* a packet whose event no handler is subscribed to, or whose socket has
\* closed, is dropped
OnUnhandled(k) ==
    /\ Arrives(k)
    /\ k.event \notin SubscribeMessage \/ ~Connected(k.conn)
    /\ Finish(k)
    /\ UNCHANGED <<store, hub, inbox, returned, notFound, view>>

\* 'join-package' -> handleJoinPackage
OnJoinPackage(k) ==
    /\ Arrives(k) /\ Connected(k.conn) /\ k.event = "join-package"
    /\ Goto(k, [k EXCEPT !.kind = "join", !.userId = sockets[k.conn].userId,
                          !.pc = "findFirst"])
    /\ UNCHANGED <<store, hub, inbox, returned, notFound, view>>

\* 'leave-package' -> handleLeavePackage
OnLeavePackage(k) ==
    /\ Arrives(k) /\ Connected(k.conn) /\ k.event = "leave-package"
    /\ rooms' = [rooms EXCEPT ![k.packageId] = @ \ {k.conn}]
    /\ inbox' = EmitAckAndToOthers(k.conn, LeftPackageEvent(k.packageId), rooms[k.packageId],
                                   PresenceEvent(k.packageId, sockets[k.conn].userId, "left"))
    /\ Finish(k)
    /\ UNCHANGED <<store, sockets, connectedUsers, returned, notFound, view>>

\* 'toggle-checklist-item' -> handleToggleChecklistItem
OnToggleChecklistItem(k) ==
    /\ Arrives(k) /\ Connected(k.conn) /\ k.event = "toggle-checklist-item"
    /\ Goto(k, [k EXCEPT !.kind = "toggle", !.userId = sockets[k.conn].userId,
                          !.pc = "updateItem"])
    /\ UNCHANGED <<store, hub, inbox, returned, notFound, view>>

\* 'update-status' -> handleUpdateStatus
OnUpdateStatus(k) ==
    /\ Arrives(k) /\ Connected(k.conn) /\ k.event = "update-status"
    /\ Goto(k, [k EXCEPT !.kind = "updateStatus", !.userId = sockets[k.conn].userId,
                          !.pc = "updatePackage"])
    /\ UNCHANGED <<store, hub, inbox, returned, notFound, view>>

\* ------------------------------------------- SocketProvider (web client)
\* the names of the listeners joinPackage registers: `package:${packageId}:...`
PackageListeners(p) ==
    {"package:" \o p \o ":presence", "package:" \o p \o ":checklist",
     "package:" \o p \o ":status"}

\* joinPackage(packageId): leave the current package, join, listen
ProviderJoinPackage(c, p) ==
    /\ Connected(c)
    /\ LET current == provider[c].currentPackage
           n == IF current # Nil THEN 2 ELSE 1
       IN  /\ CanEmit(n)
           /\ Emit((IF current # Nil
                    THEN {Packet(1, "leave", c, current, Nil, Nil, Nil, FALSE)}
                    ELSE {})
                   \cup {Packet(n, "join", c, p, Nil, Nil, Nil, FALSE)})
    /\ provider' = [provider EXCEPT ![c].currentPackage = p,
                                    ![c].listeners = @ \cup PackageListeners(p)]
    /\ UNCHANGED <<store, hub, inbox, returned, notFound, items, progress>>

\* leavePackage(packageId)
ProviderLeavePackage(c, p) ==
    /\ Connected(c) /\ CanEmit(1)
    /\ Emit({Packet(1, "leave", c, p, Nil, Nil, Nil, FALSE)})
    /\ provider' = [provider EXCEPT ![c].currentPackage = Nil,
                                    ![c].listeners = @ \ PackageListeners(p)]
    /\ UNCHANGED <<store, hub, inbox, returned, notFound, items, progress>>

\* toggleChecklistItem(packageId, itemId, completed)
ProviderToggleChecklistItem(c, p, i, completed) ==
    /\ Connected(c) /\ CanEmit(1)
    /\ Emit({Packet(1, "checklist:toggle", c, p, i, Nil, Nil, completed)})
    /\ UNCHANGED <<store, hub, inbox, returned, notFound, view>>

\* updateStatus(packageId, status, note)
ProviderUpdateStatus(c, p, status, note) ==
    /\ Connected(c) /\ CanEmit(1)
    /\ Emit({Packet(1, "status:update", c, p, Nil, status, note, FALSE)})
    /\ UNCHANGED <<store, hub, inbox, returned, notFound, view>>

\* ------------------------------------------- ChecklistEditor (web client)
\* JavaScript numbers are IEEE-754 doubles.  A double is modelled exactly, as
\* m * 2^e with m a sequence of binary digits, least significant first, of at
\* most 54 digits (53 after rounding, 54 only for a power of two), and e <= 0.
Significand == 53

RECURSIVE LeadingShift(_, _)
\* for 0 < c < t: the least s with c * 2^s >= t
LeadingShift(c, t) == IF 2 * c >= t THEN 1 ELSE 1 + LeadingShift(2 * c, t)

\* 2^n mod t, for n up to 2 * 30, without leaving the 32-bit integers
Pow2Mod(n, t) ==
    LET h == n \div 2
    IN  ((2^h % t) * (2^(n - h) % t)) % t

\* the next n binary digits of r / t (r < t), most significant first, and the
\* remainder left after them: the remainder after k digits is r * 2^k mod t
DivBits(r, t, n) ==
    LET rem(k) == (r * Pow2Mod(k, t)) % t
    IN  [bits |-> [k \in 1..n |-> IF 2 * rem(k - 1) >= t THEN 1 ELSE 0],
         rem |-> rem(n)]

Reverse(a) == [n \in 1..Len(a) |-> a[Len(a) + 1 - n]]

\* a + 1: the trailing ones become zeros and the first zero becomes a one
Inc(a) ==
    LET zeros == {n \in 1..Len(a) : a[n] = 0}
    IN  IF zeros = {} THEN [n \in 1..Len(a) |-> 0] \o <<1>>
        ELSE LET f == CHOOSE n \in zeros : \A z \in zeros : n <= z
             IN  [n \in 1..Len(a) |-> IF n < f THEN 0 ELSE IF n = f THEN 1 ELSE a[n]]

\* a + b: the carry into digit n is generated at some lower digit where both
\* are one and propagated by every digit between
Add(a, b) ==
    LET len == IF Len(a) >= Len(b) THEN Len(a) ELSE Len(b)
        x(n) == IF n <= Len(a) THEN a[n] ELSE 0
        y(n) == IF n <= Len(b) THEN b[n] ELSE 0
        carry(n) == IF \E j \in 1..(n - 1) :
                           /\ x(j) = 1 /\ y(j) = 1
                           /\ \A k \in (j + 1)..(n - 1) : x(k) + y(k) >= 1
                    THEN 1 ELSE 0
        sum == [n \in 1..len |-> (x(n) + y(n) + carry(n)) % 2]
    IN  IF carry(len + 1) = 1 THEN sum \o <<1>> ELSE sum

ShiftLeft(a, n) == [k \in 1..n |-> 0] \o a

RECURSIVE ToNat(_)
ToNat(a) == IF a = <<>> THEN 0 ELSE a[1] + 2 * ToNat(Tail(a))

\* round to nearest, ties to even: keep the 53 leading digits of m
RoundToDouble(m, e) ==
    LET d == Len(m) - Significand
    IN  IF d <= 0 THEN [m |-> m, e |-> e]
        ELSE LET kept == SubSeq(m, d + 1, Len(m))
                 up == /\ m[d] = 1
                       /\ \/ \E n \in 1..(d - 1) : m[n] = 1
                          \/ kept[1] = 1
             IN  [m |-> IF up THEN Inc(kept) ELSE kept, e |-> e + d]

\* c / t for integers 0 <= c <= t, 0 < t: the double nearest the quotient
Divide(c, t) ==
    IF c = 0 THEN [m |-> <<>>, e |-> 0]
    ELSE IF c = t THEN [m |-> <<1>>, e |-> 0]
    ELSE LET s == LeadingShift(c, t)
             q == DivBits(c * 2^(s - 1), t, Significand)
             up == 2 * q.rem > t \/ (2 * q.rem = t /\ q.bits[Significand] = 1)
         IN  [m |-> IF up THEN Inc(Reverse(q.bits)) ELSE Reverse(q.bits),
              e |-> 0 - (Significand + s - 1)]

\* x * 100: the exact product 64x + 32x + 4x, rounded to a double
Times100(x) ==
    RoundToDouble(Add(Add(ShiftLeft(x.m, 6), ShiftLeft(x.m, 5)), ShiftLeft(x.m, 2)), x.e)

\* Math.round(x), x >= 0: floor(x + 0.5), computed exactly
MathRound(x) ==
    LET q == 0 - x.e
    IN  ToNat(SubSeq(x.m, q + 1, Len(x.m)))
        + (IF q >= 1 /\ q <= Len(x.m) THEN x.m[q] ELSE 0)

\* getProgressStats(items)
GetProgressStats(list) ==
    LET total == Len(list)
        completed == Cardinality({n \in DOMAIN list : list[n].completed})
        required == Cardinality({n \in DOMAIN list : list[n].required})
        requiredCompleted ==
            Cardinality({n \in DOMAIN list : list[n].required /\ list[n].completed})
    IN  [total |-> total,
         completed |-> completed,
         required |-> required,
         requiredCompleted |-> requiredCompleted,
         percentage |-> IF total > 0 THEN MathRound(Times100(Divide(completed, total))) ELSE 0,
         requiredPercentage |->
             IF required > 0 THEN MathRound(Times100(Divide(requiredCompleted, required))) ELSE 0]

\* the component computes the statistics of the checklist it displays
RenderProgress ==
    /\ progress = <<>>
    /\ progress' = <<GetProgressStats(items)>>
    /\ UNCHANGED <<store, hub, inbox, inflight, started, budget, returned, notFound, items,
                   provider>>

\* ------------------------------------------------------- specifications
\* the (status, note) pairs status requests carry: with and without a note
StatusRequests == {<<"IN_REVIEW", "n1">>, <<"APPROVED", Nil>>}

ConnectStep(C, T) == \E c \in C, t \in T : HandleConnection(c, t)

DisconnectStep(C) == \E c \in C : HandleDisconnect(c)

JoinStep(C, P) ==
    \/ \E c \in C, p \in P : HandleJoinPackage(c, p)
    \/ \E k \in inflight : JoinFindFirst(k)
    \/ \E k \in inflight : JoinRoom(k)

LeaveStep(C, P) == \E c \in C, p \in P : HandleLeavePackage(c, p)

SocketStatusStep(C, P, R) ==
    \/ \E c \in C, p \in P, r \in R : HandleUpdateStatus(c, p, r[1], r[2])
    \/ \E k \in inflight : HandleUpdateStatusUpdate(k)
    \/ \E k \in inflight : HandleUpdateStatusCreateLog(k)
    \/ \E k \in inflight : HandleUpdateStatusBroadcast(k)
    \/ \E k \in inflight : HandleUpdateStatusCatch(k)

RestStatusStep(U, P, R) ==
    \/ \E u \in U, p \in P, r \in R : UpdateStatus(u, p, r[1], r[2])
    \/ \E k \in inflight : UpdateStatusFindUnique(k)
    \/ \E k \in inflight : UpdateStatusUpdate(k)
    \/ \E k \in inflight : UpdateStatusCreateLog(k)
    \/ \E k \in inflight : UpdateStatusReturn(k)

CreateStep(U, J, T) ==
    \/ \E u \in U, countyId \in J, permitType \in T : Create(u, countyId, permitType)
    \/ \E k \in inflight : CreateGenerateNumber(k)
    \/ \E k \in inflight : CreatePackage(k)
    \/ \E k \in inflight : CreateInitialLog(k)

EmitToUserStep(U) == \E u \in U : EmitToUser(u)

UpdateChecklistItemStep(I, B) ==
    \/ \E i \in I, body \in B : UpdateChecklistItem(i, body)
    \/ \E k \in inflight : UpdateChecklistItemFindUnique(k)
    \/ \E k \in inflight : UpdateChecklistItemUpdate(k)
    \/ \E k \in inflight : UpdateChecklistItemReturn(k)

CreateChecklistItemsStep(P, L) ==
    \/ \E p \in P, rows \in L : CreateChecklistItems(p, rows)
    \/ \E k \in inflight : CreateChecklistItemsFindUnique(k)
    \/ \E k \in inflight : CreateChecklistItem(k)
    \/ \E k \in inflight : CreateChecklistItemsReturn(k)

ToggleStep(C, P, I, B) ==
    \/ \E c \in C, p \in P, i \in I, b \in B : HandleToggleChecklistItem(c, p, i, b)
    \/ \E k \in inflight : HandleToggleUpdate(k)
    \/ \E k \in inflight : HandleToggleBroadcast(k)
    \/ \E k \in inflight : HandleToggleCatch(k)

CountyTemplateStep(J, T, D) ==
    \/ \E countyId \in J, t \in T, dto \in D : UpdateCountyTemplate(countyId, t, dto)
    \/ \E countyId \in J, t \in T : DeleteCountyTemplate(countyId, t)
    \/ \E k \in inflight : CountyTemplateFindFirst(k)
    \/ \E k \in inflight : UpdateCountyTemplateUpdate(k)
    \/ \E k \in inflight : DeleteCountyTemplateDelete(k)

\* the web client's SocketProvider on c1
ProviderStep(C, P, I, R) ==
    \/ \E c \in C, p \in P : ProviderJoinPackage(c, p)
    \/ \E c \in C, p \in P : ProviderLeavePackage(c, p)
    \/ \E c \in C, p \in P, i \in I : ProviderToggleChecklistItem(c, p, i, TRUE)
    \/ \E c \in C, p \in P, r \in R : ProviderUpdateStatus(c, p, r[1], r[2])

\* a client that uses the event names of the README
ReadmeClientStep(C, P, I, R) ==
    \/ \E c \in C, p \in P : ClientEmit(c, "join-package", p, Nil, Nil, Nil, FALSE)
    \/ \E c \in C, p \in P : ClientEmit(c, "leave-package", p, Nil, Nil, Nil, FALSE)
    \/ \E c \in C, p \in P, i \in I :
          ClientEmit(c, "toggle-checklist-item", p, i, Nil, Nil, TRUE)
    \/ \E c \in C, p \in P, r \in R : ClientEmit(c, "update-status", p, Nil, r[1], r[2], FALSE)

\* the gateway takes a packet and runs the handler subscribed to its event
GatewayStep ==
    \/ \E k \in inflight : OnUnhandled(k)
    \/ \E k \in inflight : OnJoinPackage(k)
    \/ \E k \in inflight : OnLeavePackage(k)
    \/ \E k \in inflight : OnToggleChecklistItem(k)
    \/ \E k \in inflight : OnUpdateStatus(k)
    \/ \E k \in inflight : JoinFindFirst(k)
    \/ \E k \in inflight : JoinRoom(k)
    \/ \E k \in inflight : HandleToggleUpdate(k)
    \/ \E k \in inflight : HandleToggleBroadcast(k)
    \/ \E k \in inflight : HandleToggleCatch(k)
    \/ \E k \in inflight : HandleUpdateStatusUpdate(k)
    \/ \E k \in inflight : HandleUpdateStatusCreateLog(k)
    \/ \E k \in inflight : HandleUpdateStatusBroadcast(k)
    \/ \E k \in inflight : HandleUpdateStatusCatch(k)

\* the hub with both packages in the store, and the REST status update
Init ==
    /\ InitStore(TRUE)
    /\ InitHub(MaxCalls)

Next ==
    \/ ConnectStep({"c1"}, {"none", "u1"})
    \/ ConnectStep({"c2"}, {"invalid", "u2"})
    \/ DisconnectStep(Conns)
    \/ JoinStep(Conns, PkgIds)
    \/ SocketStatusStep(Conns, {"p1"}, {<<"IN_REVIEW", "n1">>})
    \/ RestStatusStep({"u1"}, {"p1"}, {<<"APPROVED", Nil>>})
    \/ ToggleStep(Conns, PkgIds, {"i1"}, {TRUE})

Spec == Init /\ [][Next]_vars

\* the package life cycle: status updates over both entry points, and create
InitLifecycle ==
    /\ \E withP2 \in BOOLEAN : InitStore(withP2)
    /\ InitHub(MaxLifecycleCalls)

NextLifecycle ==
    \/ ConnectStep({"c1"}, {"invalid", "u2"})
    \/ SocketStatusStep({"c1"}, {"p1"}, StatusRequests)
    \/ RestStatusStep({"u1"}, PkgIds, StatusRequests)
    \/ CreateStep({"u2"}, {"county1"}, {"MOBILE_HOME", "RESIDENTIAL"})

SpecLifecycle == InitLifecycle /\ [][NextLifecycle]_vars

\* room membership: connections of either user on both rooms
InitRooms ==
    /\ InitStore(TRUE)
    /\ InitHub(MaxRoomCalls)

NextRooms ==
    \/ ConnectStep({"c1"}, {"none", "u1"})
    \/ ConnectStep({"c2"}, {"invalid", "u2"})
    \/ JoinStep(Conns, PkgIds)
    \/ LeaveStep(Conns, PkgIds)
    \/ SocketStatusStep(Conns, {"p1"}, {<<"IN_REVIEW", "n1">>})
    \/ ToggleStep({"c2"}, {"p1"}, {"i1"}, {TRUE})

SpecRooms == InitRooms /\ [][NextRooms]_vars

\* joining one room: u1 created p1 and works on it over c1, u2 asks to join it
\* over c2 and can update its status over REST
InitJoin ==
    /\ InitStore(TRUE)
    /\ InitHub(MaxJoinCalls)

NextJoin ==
    \/ ConnectStep({"c1"}, {"u1"})
    \/ ConnectStep({"c2"}, {"u2"})
    \/ JoinStep(Conns, {"p1"})
    \/ SocketStatusStep({"c1"}, {"p1"}, {<<"IN_REVIEW", "n1">>})
    \/ RestStatusStep({"u2"}, {"p1"}, {<<"APPROVED", Nil>>})

SpecJoin == InitJoin /\ [][NextJoin]_vars

\* status requests of every kind, on a package that exists and on one that may
\* not: a status of the enum (CLOSED and another), a value outside the enum,
\* and a request without status; c1 is u1's connection
AnyStatusRequests == {<<"CLOSED", Nil>>, <<"DRAFT", "n1">>, <<"BOGUS", Nil>>, <<Nil, Nil>>}

InitStatus ==
    /\ \E withP2 \in BOOLEAN : InitStore(withP2)
    /\ InitHub(MaxStatusCalls)

NextStatus ==
    \/ ConnectStep({"c1"}, {"u1"})
    \/ JoinStep({"c1"}, {"p1"})
    \/ SocketStatusStep({"c1"}, PkgIds, AnyStatusRequests)
    \/ RestStatusStep({"u2"}, PkgIds, AnyStatusRequests)

SpecStatus == InitStatus /\ [][NextStatus]_vars

\* the checklist: cloning supplied template rows into a package, and toggling
\* items over REST and over the socket
TemplateLists ==
    {<<>>,
     <<CountyChecklistTemplateItem["t3"]>>,
     <<CountyChecklistTemplateItem["t1"], CountyChecklistTemplateItem["t2"]>>}

InitChecklist ==
    /\ \E withP2 \in BOOLEAN : InitStore(withP2)
    /\ InitHub(MaxChecklistCalls)

NextChecklist ==
    \/ ConnectStep({"c1"}, {"u1"})
    \/ CreateChecklistItemsStep(PkgIds, TemplateLists)
    \/ UpdateChecklistItemStep({"i1", "i2"}, ChecklistBodies)
    \/ ToggleStep({"c1"}, {"p1"}, {"i1"}, BOOLEAN)

SpecChecklist == InitChecklist /\ [][NextChecklist]_vars

\* two connections of user u1, who created p1, join p1's room and toggle item
\* i1 of p1, c1 to completed and c2 to open
InitToggle ==
    /\ InitStore(TRUE)
    /\ InitHub(MaxToggleCalls)

NextToggle ==
    \/ ConnectStep(Conns, {"u1"})
    \/ JoinStep(Conns, {"p1"})
    \/ ToggleStep({"c1"}, {"p1"}, {"i1"}, {TRUE})
    \/ ToggleStep({"c2"}, {"p1"}, {"i1"}, {FALSE})

SpecToggle == InitToggle /\ [][NextToggle]_vars

\* the ChecklistEditor over a checklist of rc required completed, rn required
\* open, oc optional completed and on optional open items
Checklist(rc, rn, oc, on) ==
    [n \in 1..(rc + rn + oc + on) |->
        [required |-> n <= rc + rn,
         completed |-> n <= rc \/ (n > rc + rn /\ n <= rc + rn + oc)]]

InitProgress ==
    /\ InitStore(TRUE)
    /\ InitGateway(0)
    /\ \E rc, rn \in 0..MaxItems, oc, on \in 0..MaxOptional :
          /\ rc + rn + oc + on <= MaxItems
          /\ oc + on <= MaxOptional
          /\ items = Checklist(rc, rn, oc, on)
    /\ progress = <<>>
    /\ InitProvider

NextProgress == RenderProgress

SpecProgress == InitProgress /\ [][NextProgress]_vars

\* leaving a room: u1 works on p1 and p2 over c1, u2 on its package p2 over c2,
\* and toggles item i2 of p2
InitLeave ==
    /\ InitStoreShared
    /\ InitHub(MaxLeaveCalls)

NextLeave ==
    \/ ConnectStep({"c1"}, {"u1"})
    \/ ConnectStep({"c2"}, {"u2"})
    \/ JoinStep({"c1"}, PkgIds)
    \/ JoinStep({"c2"}, {"p2"})
    \/ LeaveStep({"c1"}, {"p2"})
    \/ ToggleStep({"c2"}, {"p2"}, {"i2"}, {TRUE})

SpecLeave == InitLeave /\ [][NextLeave]_vars

\* sessions: user u1 opens and closes two connections, joins p1's room over
\* them and updates p1's status over c1; the application notifies u1
InitSessions ==
    /\ InitStore(TRUE)
    /\ InitHub(MaxSessionCalls)

NextSessions ==
    \/ ConnectStep(Conns, {"u1"})
    \/ DisconnectStep(Conns)
    \/ JoinStep(Conns, {"p1"})
    \/ SocketStatusStep({"c1"}, {"p1"}, {<<"IN_REVIEW", "n1">>})
    \/ EmitToUserStep({"u1"})

SpecSessions == InitSessions /\ [][NextSessions]_vars

\* the two entry points side by side: the same status request and the same
\* checklist request over the socket (c1 is u1's connection) and over REST, on
\* a package and an item that exist and on ones that may not
InitEquivalence ==
    /\ \E withP2 \in BOOLEAN : InitStore(withP2)
    /\ InitHub(MaxEquivalenceCalls)

NextEquivalence ==
    \/ ConnectStep({"c1"}, {"u1"})
    \/ SocketStatusStep({"c1"}, PkgIds, {<<"IN_REVIEW", "n1">>})
    \/ RestStatusStep({"u1"}, PkgIds, {<<"IN_REVIEW", "n1">>})
    \/ ToggleStep({"c1"}, {"p1"}, {"i1", "i2"}, {TRUE})
    \/ UpdateChecklistItemStep({"i1", "i2"}, {[completed |-> TRUE]})

SpecEquivalence == InitEquivalence /\ [][NextEquivalence]_vars

\* ================================================================ claims
InFlightOn(p, kinds) == \E k \in inflight : k.packageId = p /\ k.kind \in kinds

\* an updateStatus call whose store statements have all settled
Settled(k) ==
    /\ k.kind = "updateStatus"
    /\ \/ k.via = "socket" /\ k.pc \in {"broadcast", "catch"}
       \/ k.via = "rest" /\ k.pc = "writes" /\ k.pkgOp # "pending" /\ k.logOp # "pending"

\* C1: once the store statements of a status update have settled, the package
\* update and the audit entry are both persisted or both absent.
C1_StatusChangeAtomicWithAudit ==
    \A k \in inflight : Settled(k) => ((k.pkgOp = "ok") <=> (k.logOp = "ok"))

\* C2: a package whose creation succeeded and on which n status updates have
\* returned successfully, none has thrown and none is in flight, has exactly
\* n + 1 audit entries.
C2_LogCountIsTransitionsPlusOne ==
    \A p \in PkgIds :
        ( /\ packages[p].exists
          /\ returned[p].failed = 0
          /\ ~InFlightOn(p, {"updateStatus", "create"}) )
        => Len(statusLogs[p]) = returned[p].ok + 1

\* two status updates of one package have returned, one over REST (user u1)
\* and one over the socket (user u2), and three audit entries exist
C2_Witness ==
    \E p \in PkgIds :
        /\ returned[p] = [ok |-> 2, failed |-> 0]
        /\ ~InFlightOn(p, {"updateStatus", "create"})
        /\ Len(statusLogs[p]) = 3
        /\ \E i, j \in DOMAIN statusLogs[p] :
              statusLogs[p][i].userId = "u1" /\ statusLogs[p][j].userId = "u2" /\ i > 1 /\ j > 1

\* C3: when every status update of a package has completed (none failed), the
\* newest audit entry carries the package's current status.
C3_LatestLogMatchesStatus ==
    \A p \in PkgIds :
        ( /\ packages[p].exists
          /\ returned[p].failed = 0
          /\ ~InFlightOn(p, {"updateStatus", "create"}) )
        => statusLogs[p][Len(statusLogs[p])].status = packages[p].status

\* C4: a package that create has finished with has its creation entry: the
\* first audit entry exists and is {DRAFT, 'Package created', creator}.
C4_CreationEntryInseparable ==
    \A p \in PkgIds :
        (packages[p].exists /\ ~InFlightOn(p, {"create"}))
        => /\ Len(statusLogs[p]) >= 1
           /\ statusLogs[p][1] =
                 StatusLogRow("DRAFT", "Package created", packages[p].createdById)

\* ------------------------------------------------------ hub claims
\* the calls that take a step: a call's record changes or goes at each step
Stepping == {k \in inflight : k \notin inflight'}

\* the positions of the events a step delivers to connection c
NewAt(c) == (Len(inbox[c]) + 1)..Len(inbox'[c])

\* a step delivers to connection c exactly one event, of the given name
ReceivesOnly(c, name) ==
    /\ Len(inbox'[c]) = Len(inbox[c]) + 1
    /\ SubSeq(inbox'[c], 1, Len(inbox[c])) = inbox[c]
    /\ inbox'[c][Len(inbox'[c])].name = name

Committed(k) ==
    \/ k.kind = "toggle" /\ k.itemOp = "ok"
    \/ k.kind = "updateStatus" /\ k.pkgOp = "ok" /\ k.logOp = "ok"

SomeWriteFailed(k) == k.pkgOp = "failed" \/ k.logOp = "failed" \/ k.itemOp = "failed"

MutationEvents == {"checklist-updated", "status-updated"}

\* C5: a handler about to broadcast has committed its mutation, every
\* checklist-updated or status-updated event delivered comes from a handler
\* whose writes are committed, and a handler one of whose writes failed
\* delivers nothing but an error event to its own connection.
C5_BroadcastAfterPersist ==
    /\ [](\A k \in inflight :
             /\ k.pc = "broadcast" => Committed(k)
             /\ k.pc = "catch" => SomeWriteFailed(k))
    /\ [][ /\ \A c \in Conns : \A n \in NewAt(c) :
                inbox'[c][n].name \in MutationEvents =>
                    \E k \in Stepping : Committed(k) /\ k.pc = "broadcast"
           /\ \A k \in Stepping :
                (k.kind \in {"toggle", "updateStatus"} /\ k.via = "socket" /\ SomeWriteFailed(k))
                => \A c \in Conns :
                      IF c = k.conn /\ Connected(c)
                      THEN ReceivesOnly(c, "error")
                      ELSE inbox'[c] = inbox[c]
         ]_vars

\* a connection has been told that its status update failed and has then
\* received the checklist-updated event of a committed toggle
C5_Witness ==
    \E c \in Conns : \E i, j \in DOMAIN inbox[c] :
        /\ i < j
        /\ inbox[c][i].name = "error" /\ inbox[c][i].action = "Failed to update status"
        /\ inbox[c][j].name = "checklist-updated"
        /\ checklistItems[inbox[c][j].itemId].completed = inbox[c][j].completed

\* C6: the step in which a status update of package p returns successfully
\* delivers status-updated, with the new status and the note, to every
\* connection joined to p's room.
C6_StatusUpdatedReachesRoom ==
    [][\A p \in PkgIds :
          returned'[p].ok > returned[p].ok =>
              \E k \in Stepping :
                  /\ k.kind = "updateStatus" /\ k.packageId = p
                  /\ \A c \in rooms[p] :
                        Connected(c) =>
                            /\ Len(inbox'[c]) = Len(inbox[c]) + 1
                            /\ inbox'[c][Len(inbox'[c])] =
                                  StatusUpdatedEvent(p, k.status, k.note, k.userId)
      ]_vars

\* C7: every checklist-updated event delivered was addressed to the room of
\* the package that owns the item it reports.
C7_ChecklistEventToOwningRoom ==
    \A c \in Conns : \A n \in DOMAIN inbox[c] :
        inbox[c][n].name = "checklist-updated"
        => inbox[c][n].room = checklistItems[inbox[c][n].itemId].packageId

AccessDenied(p) == ErrorEvent("Access denied to this package", p)

C9_RoomIsolation ==
    [][\A c \in Conns : \A n \in NewAt(c) :
          inbox'[c][n].room # Nil => c \in rooms'[inbox'[c][n].room]
      ]_vars

\* c1 is a member of room p1 only and c2 of room p2 only; c1 has received a
\* status-updated event addressed to p1, c2 nothing addressed to p1
C9_Witness ==
    /\ "c1" \in rooms["p1"] /\ "c1" \notin rooms["p2"]
    /\ "c2" \in rooms["p2"] /\ "c2" \notin rooms["p1"]
    /\ \E n \in DOMAIN inbox["c1"] :
          inbox["c1"][n].name = "status-updated" /\ inbox["c1"][n].room = "p1"
    /\ \A n \in DOMAIN inbox["c2"] : inbox["c2"][n].room # "p1"

\* C10: a connection that presented no token or an invalid one is terminated,
\* is not in the connected-user registry and is in no room; every member of a
\* room, and every connection whose join is being handled, has the userId of
\* the token it presented.
C10_AuthenticationPrecedesJoin ==
    /\ \A c \in Conns :
          sockets[c].token \in {"none", "invalid"} =>
              /\ sockets[c].state = "disconnected"
              /\ sockets[c].userId = Nil
              /\ \A u \in Users : connectedUsers[u] # c
              /\ \A p \in PkgIds : c \notin rooms[p]
    /\ \A c \in Conns, p \in PkgIds :
          c \in rooms[p] => sockets[c].userId \in Users /\ sockets[c].userId = sockets[c].token
    /\ \A k \in inflight :
          k.kind = "join" => k.userId \in Users /\ k.userId = sockets[k.conn].token

\* one connection was turned away for its token while the other, authenticated,
\* has joined a room
C10_Witness ==
    \E c, b \in Conns, p \in PkgIds :
        /\ sockets[c].token \in {"none", "invalid"}
        /\ b \in rooms[p]

\* ------------------------------------------------ request-level rights
\* connection c of user u has rights on package p: u created p or last updated
\* it (the test handleJoinPackage applies) and c is a member of p's room
HasRights(c, u, p) ==
    /\ packages[p].exists
    /\ packages[p].createdById = u \/ packages[p].updatedById = u
    /\ c \in rooms[p]

\* C11: a step of a toggle-checklist-item or update-status handler whose
\* connection lacks rights on the package the request names changes no row of
\* the store and delivers no event addressed to that package's room.
C11_UnauthorizedMutationRejected ==
    [][\A k \in Stepping :
          ( /\ k.via = "socket" /\ k.kind \in {"toggle", "updateStatus"}
            /\ ~HasRights(k.conn, k.userId, k.packageId) )
          => /\ store' = store
             /\ \A c \in Conns : \A n \in NewAt(c) : inbox'[c][n].room # k.packageId
      ]_vars

\* ------------------------------------------------ checklist instantiation
ItemsOf(p) == {i \in ItemIds : checklistItems[i].exists /\ checklistItems[i].packageId = p}

\* the templates of a county that apply to a permit type: permitType IS NULL
\* OR permitType = selectedType
TemplatesFor(countyId, permitType) ==
    {t \in TemplateIds :
        /\ CountyChecklistTemplateItem[t].countyId = countyId
        /\ CountyChecklistTemplateItem[t].permitType \in {Nil, permitType}}

\* C12: when create returns the new package, the package's checklist holds
\* exactly one uncompleted item per template of its county that applies to
\* its permit type, and nothing else.
C12_CreateInstantiatesChecklist ==
    [][\A k \in Stepping :
          (k.kind = "create" /\ k.pc = "createLog" /\ statusLogs' # statusLogs)
          => LET row == packages'[k.packageId]
             IN  \E f \in [TemplatesFor(row.countyId, row.permitType) -> ItemIds] :
                   /\ \A i \in ItemIds :
                         (checklistItems'[i].exists /\ checklistItems'[i].packageId = k.packageId)
                         <=> \E t \in DOMAIN f : f[t] = i
                   /\ \A t, u \in DOMAIN f : t # u => f[t] # f[u]
                   /\ \A t \in DOMAIN f :
                         checklistItems'[f[t]] =
                             ItemRow(k.packageId, CountyChecklistTemplateItem[t])
      ]_vars

\* the ids in a sequence of created rows
Ids(result) == {result[n] : n \in DOMAIN result} \ {Nil}

\* C13: createChecklistItems on a package that does not exist throws NotFound
\* and writes nothing; on an existing package each of its steps inserts at
\* most one row and changes no other, the row inserted for a supplied template
\* row is owned by the package and carries that row's label, category,
\* required and sort, with completed=false and completedAt=null, and when the
\* call returns its result there is one such row, still carrying the copied
\* fields, per supplied template row.
C13_CreateChecklistItemsClonesRows ==
    [][\A k \in Stepping :
          k.kind = "createChecklistItems" =>
            /\ (k.pc = "findUnique" /\ ~packages[k.packageId].exists)
               => /\ notFound'[k.packageId] = notFound[k.packageId] + 1
                  /\ store' = store
                  /\ \A j \in inflight' : j.id # k.id
            /\ (k.pc = "findUnique" /\ packages[k.packageId].exists)
               => store' = store /\ notFound' = notFound
            /\ k.pc = "creates"
               => /\ packages[k.packageId].exists
                  /\ \A j \in inflight' : j.id = k.id =>
                        /\ Cardinality(Ids(j.result) \ Ids(k.result)) <= 1
                        /\ \A i \in ItemIds :
                              checklistItems'[i] # checklistItems[i]
                              => /\ i \in Ids(j.result) \ Ids(k.result)
                                 /\ ~checklistItems[i].exists
                                 /\ \E n \in DOMAIN k.itemOps :
                                       /\ k.itemOps[n] = "pending"
                                       /\ j.itemOps[n] = "ok"
                                       /\ j.result[n] = i
                                       /\ checklistItems'[i] =
                                            [exists |-> TRUE, packageId |-> k.packageId,
                                             label |-> k.templateItems[n].label,
                                             category |-> k.templateItems[n].category,
                                             required |-> k.templateItems[n].required,
                                             sort |-> k.templateItems[n].sort,
                                             completed |-> FALSE, completedAt |-> NullTime]
                  /\ (\A j \in inflight' : j.id # k.id)
                     => /\ store' = store
                        /\ (\A n \in DOMAIN k.itemOps : k.itemOps[n] = "ok")
                           => /\ Len(k.result) = Len(k.templateItems)
                              /\ Cardinality(Ids(k.result)) = Len(k.templateItems)
                              /\ \A n \in DOMAIN k.result :
                                    LET row == checklistItems[k.result[n]]
                                    IN  /\ row.exists
                                        /\ row.packageId = k.packageId
                                        /\ row.label = k.templateItems[n].label
                                        /\ row.category = k.templateItems[n].category
                                        /\ row.required = k.templateItems[n].required
                                        /\ row.sort = k.templateItems[n].sort
      ]_vars

\* a call has cloned two template rows into package p1, which now has three
\* items, and a call on a package that does not exist has thrown NotFound
C13_Witness ==
    /\ inflight = {}
    /\ Cardinality(ItemsOf("p1")) = 3
    /\ \E i \in ItemsOf("p1") : checklistItems[i].label = "Tie-down/anchoring system details"
    /\ ~packages["p2"].exists /\ notFound["p2"] = 1 /\ ItemsOf("p2") = {}

\* C14: in every state, a checklist item's completedAt is null exactly when
\* its completed is false.
C14_CompletedAtIffCompleted ==
    \A i \in ItemIds :
        checklistItems[i].exists
        => ((checklistItems[i].completedAt = NullTime) <=> ~checklistItems[i].completed)

\* round(a / b), halves upwards, for integers a >= 0, b > 0
Round(a, b) == (2 * a + b) \div (2 * b)

\* C15: the statistics rendered for a checklist are its item counts, with
\* percentage = round(100*completed/total) (0 for an empty checklist) and
\* requiredPercentage = round(100*requiredCompleted/required) (0 without
\* required items); both percentages lie in 0..100 and
\* requiredCompleted <= required <= total.
C15_ProgressStats ==
    progress # <<>> =>
        LET st == progress[1]
            total == Len(items)
            completed == Cardinality({n \in DOMAIN items : items[n].completed})
            required == Cardinality({n \in DOMAIN items : items[n].required})
            requiredCompleted ==
                Cardinality({n \in DOMAIN items : items[n].required /\ items[n].completed})
        IN  /\ st.total = total /\ st.completed = completed
            /\ st.required = required /\ st.requiredCompleted = requiredCompleted
            /\ st.percentage = IF total > 0 THEN Round(100 * completed, total) ELSE 0
            /\ st.requiredPercentage =
                  IF required > 0 THEN Round(100 * requiredCompleted, required) ELSE 0
            /\ st.percentage \in 0..100 /\ st.requiredPercentage \in 0..100
            /\ st.requiredCompleted <= st.required /\ st.required <= st.total

\* C16: a status update naming a package that does not exist throws NotFound
\* over REST, and over the socket ends in one error event to the caller alone;
\* neither writes a row or delivers anything else, and no audit entry ever
\* refers to a package that does not exist.
C16_UpdateStatusNotFound ==
    /\ [](\A p \in PkgIds : ~packages[p].exists => statusLogs[p] = <<>>)
    /\ [][\A k \in Stepping :
             (k.kind = "updateStatus" /\ ~packages[k.packageId].exists)
             => /\ store' = store
                /\ k.pc = "findUnique"
                   => /\ notFound'[k.packageId] = notFound[k.packageId] + 1
                      /\ \A j \in inflight' : j.id # k.id
                      /\ inbox' = inbox
                /\ k.pc = "updatePackage"
                   => /\ \E j \in inflight' : j.id = k.id /\ j.pc = "catch"
                      /\ inbox' = inbox
                /\ k.pc = "catch"
                   => /\ \A j \in inflight' : j.id # k.id
                      /\ \A c \in Conns :
                            IF c = k.conn /\ Connected(c)
                            THEN ReceivesOnly(c, "error")
                            ELSE inbox'[c] = inbox[c]
                /\ k.pc \in {"findUnique", "updatePackage", "catch"}
         ]_vars

\* both entry points were used on a package that does not exist: REST has
\* thrown NotFound, the socket caller has its error event, and there is still
\* no package and no audit entry
C16_Witness ==
    \E p \in PkgIds :
        /\ ~packages[p].exists /\ statusLogs[p] = <<>>
        /\ notFound[p] = 1
        /\ inflight = {}
        /\ \E c \in Conns : \E n \in DOMAIN inbox[c] :
              inbox[c][n] = ErrorEvent("Failed to update status", p)

\* C17: a step of a status update whose status is not a member of the enum
\* changes no row of the store and delivers no event addressed to a room, and
\* the status of every package is a member of the enum.
C17_InvalidStatusRejected ==
    /\ [](\A p \in PkgIds : packages[p].exists => packages[p].status \in PackageStatus)
    /\ [][\A k \in Stepping :
             (k.kind = "updateStatus" /\ k.status \notin PackageStatus)
             => /\ store' = store
                /\ \A c \in Conns : \A n \in NewAt(c) : inbox'[c][n].room = Nil
         ]_vars

ChecklistEventsAt(c, i) ==
    {n \in DOMAIN inbox[c] : inbox[c][n].name = "checklist-updated" /\ inbox[c][n].itemId = i}

\* C19: when no toggle handler is running, the last checklist-updated event a
\* connection has received about an item carries the completed value the store
\* holds for it.
C19_TogglesConverge ==
    (\A k \in inflight : k.kind # "toggle")
    => \A c \in Conns, i \in ItemIds :
          \A n \in ChecklistEventsAt(c, i) :
              (\A m \in ChecklistEventsAt(c, i) : m <= n)
              => inbox[c][n].completed = checklistItems[i].completed

\* C20: the step that completes a join-package{p} makes the connection a
\* member of p's room and of no other, delivers to it exactly the
\* joined-package acknowledgment, and delivers exactly one
\* presence{userId, 'joined'} event to every other member of the room and
\* nothing to anybody else.
C20_JoinAckAndPresence ==
    [][\A k \in Stepping :
          (k.kind = "join" /\ k.pc = "join" /\ Connected(k.conn))
          => /\ rooms' = [rooms EXCEPT ![k.packageId] = @ \cup {k.conn}]
             /\ \A j \in inflight' : j.id # k.id
             /\ \A b \in Conns :
                   inbox'[b] =
                      IF b = k.conn THEN Append(inbox[b], JoinedPackageEvent(k.packageId))
                      ELSE IF b \in rooms[k.packageId] /\ Connected(b)
                      THEN Append(inbox[b], PresenceEvent(k.packageId, k.userId, "joined"))
                      ELSE inbox[b]
      ]_vars

\* both connections are members of p1's room: the first has been told that the
\* second joined, the second has its acknowledgment and no presence event
C20_Witness ==
    \E c, b \in Conns :
        /\ c # b /\ {c, b} \subseteq rooms["p1"]
        /\ \E n \in DOMAIN inbox[c] :
              inbox[c][n] = PresenceEvent("p1", sockets[b].userId, "joined")
        /\ \E n \in DOMAIN inbox[b] : inbox[b][n] = JoinedPackageEvent("p1")
        /\ \A n \in DOMAIN inbox[b] : inbox[b][n].name # "presence"

\* ------------------------------------------------------ leaving a room
\* the last of the acknowledgements joined-package{p} and left-package{p} that
\* connection c has received is joined-package{p}
LastAckIsJoined(c, p) ==
    \E m \in DOMAIN inbox[c] :
        /\ inbox[c][m] = JoinedPackageEvent(p)
        /\ \A n \in DOMAIN inbox[c] : n > m => inbox[c][n] # LeftPackageEvent(p)

\* a step of the synchronous handler handleLeavePackage
LeaveHandled == started' = started + 1 /\ inflight' = inflight

\* C21: a leave-package{p} step acknowledges left-package{p} to its connection
\* c and to nobody else; when c was a member of p's room, c is no longer one,
\* every other member receives presence{left} naming c's user and nothing
\* else, and no other room changes; afterwards c is a member of p's room, and
\* receives an event addressed to it, only after a later joined-package{p}.
C21_LeaveRemovesMembership ==
    /\ [](\A c \in Conns, p \in PkgIds :
             /\ c \in rooms[p] => LastAckIsJoined(c, p)
             /\ \A i, j \in DOMAIN inbox[c] :
                   (i < j /\ inbox[c][i] = LeftPackageEvent(p) /\ inbox[c][j].room = p)
                   => \E m \in (i + 1)..(j - 1) : inbox[c][m] = JoinedPackageEvent(p))
    /\ [][LeaveHandled =>
             \E c \in Conns, p \in PkgIds :
                /\ inbox'[c] = Append(inbox[c], LeftPackageEvent(p))
                /\ c \in rooms[p] =>
                      /\ rooms' = [rooms EXCEPT ![p] = @ \ {c}]
                      /\ \A b \in Conns \ {c} :
                            inbox'[b] = IF b \in rooms[p] /\ Connected(b)
                                        THEN Append(inbox[b],
                                                    PresenceEvent(p, sockets[c].userId, "left"))
                                        ELSE inbox[b]
         ]_vars

\* c1, joined to p1 and p2, has left p2 and is still in p1's room; c2, in p2's
\* room, has received presence{left} of u1 and then a checklist-updated event
\* of p2 that c1 has not received
C21_Witness ==
    /\ "c1" \in rooms["p1"] /\ "c1" \notin rooms["p2"] /\ "c2" \in rooms["p2"]
    /\ \E n \in DOMAIN inbox["c1"] : inbox["c1"][n] = LeftPackageEvent("p2")
    /\ \E i, j \in DOMAIN inbox["c2"] :
          /\ i < j
          /\ inbox["c2"][i] = PresenceEvent("p2", "u1", "left")
          /\ inbox["c2"][j].name = "checklist-updated" /\ inbox["c2"][j].room = "p2"
    /\ \A n \in DOMAIN inbox["c1"] : inbox["c1"][n].name # "checklist-updated"

\* ------------------------------------------------------ disconnection
Closed(c) == sockets[c].state = "disconnected"

\* C22: a connection that has disconnected is a member of no package room,
\* and no step delivers an event to it.
C22_DisconnectLeavesEveryRoom ==
    /\ [](\A c \in Conns : Closed(c) => \A p \in PkgIds : c \notin rooms[p])
    /\ [][\A c \in Conns : (Closed(c) \/ Closed(c)') => inbox'[c] = inbox[c]]_vars

\* c1 joined p1's room and has disconnected; afterwards a status-updated event
\* of p1 reached c2, a member of the room, and not c1
C22_Witness ==
    /\ Closed("c1")
    /\ \E n \in DOMAIN inbox["c1"] : inbox["c1"][n] = JoinedPackageEvent("p1")
    /\ "c2" \in rooms["p1"]
    /\ \E n \in DOMAIN inbox["c2"] : inbox["c2"][n].name = "status-updated"
    /\ \A n \in DOMAIN inbox["c1"] : inbox["c1"][n].name # "status-updated"

\* the live authenticated connections of user u
LiveConnections(u) == {c \in Conns : Connected(c) /\ sockets[c].userId = u}

\* C23: the registry has an entry for exactly the users with a live
\* connection: such a user is registered with one of their live connections,
\* and no entry names a connection that is not live.
C23_RegistryMatchesLiveConnections ==
    \A u \in Users :
        /\ LiveConnections(u) # {} => connectedUsers[u] \in LiveConnections(u)
        /\ connectedUsers[u] # Nil => connectedUsers[u] \in LiveConnections(u)

\* ------------------------------------------------- required-item gating
\* C24: nothing in updateStatus depends on the checklist: whenever the package
\* update of a status request for an existing package and a status of the
\* enum is due, over REST or over the socket, the statement can commit the
\* requested status, whether or not required checklist items are open.
C24_NoRequiredItemGate ==
    \A k \in inflight :
        ( /\ k.kind = "updateStatus"
          /\ packages[k.packageId].exists /\ ValidStatus(k.status) )
        => /\ (k.via = "rest" /\ k.pc = "writes" /\ k.pkgOp = "pending")
              => ENABLED (UpdateStatusUpdate(k) /\ packages'[k.packageId].status = k.status)
           /\ (k.via = "socket" /\ k.pc = "updatePackage")
              => ENABLED (HandleUpdateStatusUpdate(k)
                          /\ packages'[k.packageId].status = k.status)

\* updateStatus(p1, APPROVED) has returned successfully and p1 is APPROVED
\* while a required item of its checklist is open
C24_Witness ==
    /\ inflight = {}
    /\ packages["p1"].status = "APPROVED"
    /\ returned["p1"].ok >= 1
    /\ RequiredOpen("p1") # {}

\* ------------------------------------------- socket and REST entry points
\* the step of a checklist request, over either entry point, that issues
\* packageChecklistItem.update
ItemUpdateDue(k) ==
    /\ k.kind \in {"toggle", "updateChecklistItem"}
    /\ k.pc = "updateItem"

\* C25: a request leaves the same rows over either entry point.  A status
\* request whose package update did not commit leaves no StatusLog row (the
\* socket handler never reaches the create), and one on a package that does
\* not exist writes nothing; a checklist request {itemId, completed} either
\* writes nothing or sets the item to completed with completedAt = now (null
\* when completed is false), and writes nothing when the item does not exist.
C25_SocketEquivalentToRest ==
    /\ [](\A k \in inflight : Settled(k) => (k.pkgOp # "ok" => k.logOp # "ok"))
    /\ [][\A k \in Stepping :
             /\ (k.kind = "updateStatus" /\ ~packages[k.packageId].exists) => store' = store
             /\ ItemUpdateDue(k) =>
                   /\ packages' = packages /\ statusLogs' = statusLogs
                   /\ \/ checklistItems' = checklistItems
                      \/ /\ checklistItems[k.itemId].exists
                         /\ checklistItems' =
                               [checklistItems EXCEPT
                                   ![k.itemId].completed = k.completed,
                                   ![k.itemId].completedAt =
                                       IF k.completed THEN Now ELSE NullTime]
         ]_vars

\* the web client (c1, user u1) and a client written against the README (c2,
\* user u2) talk to the gateway
InitClient ==
    /\ InitStore(TRUE)
    /\ InitHub(MaxClientCalls)

NextClient ==
    \/ ConnectStep({"c1"}, {"u1"})
    \/ ConnectStep({"c2"}, {"u2"})
    \/ ProviderStep({"c1"}, {"p1"}, {"i1"}, {<<"IN_REVIEW", "n1">>})
    \/ ReadmeClientStep({"c2"}, {"p2"}, {"i2"}, {<<"IN_REVIEW", "n1">>})
    \/ GatewayStep

SpecClient == InitClient /\ [][NextClient]_vars

\* C26: the web client and the hub speak the same event protocol: every
\* request a client sends carries an event name the hub has a handler for, and
\* every listener the web client registers is for an event name the hub emits.
C26_ClientAndHubSpeakOneProtocol ==
    /\ \A k \in inflight : k.pc = "wire" => k.event \in SubscribeMessage
    /\ \A c \in Conns : provider[c].listeners \subseteq EmittedEvents

\* an administrator edits and deletes template rows of county1 while checklist
\* items are created on p1 from rows read earlier
TemplateDtos == {TemplateRow("county1", "RESIDENTIAL", "Signed application form", "Forms", FALSE, 7)}

InitTemplates ==
    /\ InitStore(TRUE)
    /\ InitHub(MaxTemplateCalls)

NextTemplates ==
    \/ CreateChecklistItemsStep({"p1"}, TemplateLists)
    \/ CountyTemplateStep({"county1", "county2"}, {"t1", "t3"}, TemplateDtos)

SpecTemplates == InitTemplates /\ [][NextTemplates]_vars

\* a step of a request of one of the given kinds: it starts, moves on or ends
StepOf(kinds) ==
    \E k \in inflight \cup inflight' :
        /\ k.kind \in kinds
        /\ k \notin inflight \/ k \notin inflight'

\* C27: creating checklist items never changes the templates, and a later
\* update or deletion of a template leaves every created item unchanged.
C27_ItemsAndTemplatesIndependent ==
    [][/\ StepOf({"createChecklistItems"}) => templates' = templates
       /\ StepOf({"updateCountyTemplate", "deleteCountyTemplate"})
             => checklistItems' = checklistItems]_vars

\* an item cloned from t1 exists on p1 with t1's label after t1 was edited or
\* deleted
C27_Witness ==
    \E i \in ItemIds \ {"i1", "i2"} :
        /\ checklistItems[i].exists
        /\ checklistItems[i].label = CountyChecklistTemplateItem["t1"].label
        /\ templates["t1"].label # CountyChecklistTemplateItem["t1"].label

\* C29: a user who is neither the creator nor the updater of package p cannot,
\* by events sent over their own connection, become a member of room p or
\* receive a broadcast addressed to p. In SpecRooms no package has an updater
\* at the start and a user becomes one only by their own update-status, so the
\* members and receivers of room p are connections of p's creator.
C29_OutsiderStaysOutOfRoom ==
    \A c \in Conns, p \in PkgIds :
        (\/ c \in rooms[p]
         \/ \E n \in DOMAIN inbox[c] : inbox[c][n].room = p)
            => sockets[c].userId = packages[p].createdById

\* the presence{left} events for room p naming user u that connection b has received
LeftPresences(b, p, u) ==
    {n \in DOMAIN inbox[b] : inbox[b][n] = PresenceEvent(p, u, "left")}

\* C30: a presence{left} event naming user u reaches a member of room p only
\* in a step in which a connection of u that was a member of p leaves it: a
\* leave-package from a connection outside the room sends no presence event.
C30_LeftPresenceOnlyFromMembers ==
    [][\A b \in Conns, p \in PkgIds, u \in Users :
          LeftPresences(b, p, u)' # LeftPresences(b, p, u)
             => \E c \in rooms[p] \ rooms'[p] : sockets[c].userId = u]_vars

====
